---- MODULE Spec2Model ----
(***************************************************************************)
(* Model of the HMM coverage pipeline of baby_fuzzer_palpebratum/hmms:     *)
(*   pipeline/coverage/coverage_calculation.py  (coverage map, accumulate) *)
(*   pipeline/coverage/measures.py              (normalize, similarity)    *)
(*   pipeline/coverage/hmms.py                  (create_model retry loop)  *)
(*   scripts/hmm_coverage.py                    (init, calculate_coverage) *)
(*   pipeline/preprocessing/preprocess.py       (preprocess dispatch)      *)
(* Floats are modelled exactly, as fractions [num, den] with den > 0.      *)
(* Python lists are sequences; a Python index i is position i + 1.         *)
(***************************************************************************)
EXTENDS Integers, Sequences, FiniteSets, TLC

VARIABLES
    pc,                   \* position of the running entry point
    number_of_nodes,      \* number_of_nodes / no_components argument; the global of
                          \* hmm_coverage (0 stands for None)
    estimated_nodes,      \* the decoded state path handed to generate_coverage_map
    coverage,             \* what generate_coverage_map returned (or its IndexError)
    files,                \* calculate_coverage: the file names the loop has taken so far
    round_ctr,            \* calculate_coverage: number of files opened so far
    data,                 \* calculate_coverage: the decoded sequences of the open file
    seq_idx,              \* calculate_coverage: sequences of the open file processed
    loaded,               \* every sequence read so far, in file order then in-file order
    coverage_summarized,  \* calculate_coverage: cumulative bitmap
    cov_over_time,        \* calculate_coverage: the coverage trace
    fuzzer_in,            \* calculate_coverage_similarity: the fuzzer argument
    hmm_in,               \* calculate_coverage_similarity: the hmm argument
    max_distance,         \* calculate_coverage_similarity: the window
    fuzzer,               \* normalize(fuzzer)
    hmm,                  \* normalize(hmm)
    number_indices,       \* len(indices_fuzzer) + len(indices_hmm), before matching
    sorted_matches,       \* the candidates, sorted by distance
    match_pos,            \* candidates of sorted_matches the greedy loop has visited
    matches,              \* accepted matches
    unmatched_fuzzer,     \* events of the fuzzer curve not matched (aliases indices_fuzzer)
    unmatched_hmm,        \* events of the hmm curve not matched (aliases indices_hmm)
    score,                \* what calculate_coverage_similarity returned (or raised)
    threshold,            \* create_model: the attempt budget
    fit_i,                \* create_model: the loop counter i, attempts made
    successful,           \* create_model: an attempt completed without exception
    model,                \* create_model: the model object; the global of hmm_coverage
    outcomes,             \* how each call of from_samples ended, in call order
    fit_result,           \* what create_model returned
    debug,                \* Python's __debug__: assert statements are executed
    initialized,          \* hmm_coverage: the global initialized
    preprocessor,         \* hmm_coverage: the global preprocessor
    preprocessor_type,    \* hmm_coverage: the global preprocessor_type
    preprocessed_data,    \* hmm_coverage.calculate_coverage: the preprocessed batch
    warned,               \* calculate_coverage_single printed its warning
    steps,                \* what the running (or last) call of hmm_coverage has called
    raised,               \* the exception that ended the last call of hmm_coverage
    init_completed        \* some call of hmm_coverage.init has run to its end

covVars == <<number_of_nodes, estimated_nodes, coverage, files, round_ctr, data, seq_idx,
             loaded, coverage_summarized, cov_over_time>>

scoreVars == <<fuzzer_in, hmm_in, max_distance, fuzzer, hmm, number_indices, sorted_matches,
               match_pos, matches, unmatched_fuzzer, unmatched_hmm, score>>

fitVars == <<threshold, fit_i, successful, model, outcomes, fit_result>>

hookVars == <<debug, initialized, preprocessor, preprocessor_type, preprocessed_data,
              warned, steps, raised, init_completed>>

vars == <<pc, covVars, scoreVars, fitVars, hookVars>>

----------------------------------------------------------------------------
(* Bounds of the model *)

MaxNodes == 2

MaxPathLen == 3

MaxSeqLen == 2

MaxSeqs == 2

MaxFiles == 2

MaxCurveLen == 3

MaxLevel == 1

MaxWindow == 2

MaxThreshold == 3

MaxStreams == 2

----------------------------------------------------------------------------
(* Generic helpers *)

Min2(a, b) == IF a <= b THEN a ELSE b

Abs(x) == IF x < 0 THEN -x ELSE x

SeqsUpTo(S, n) == UNION {[1..k -> S] : k \in 0..n}

RECURSIVE SumSeq(_)
SumSeq(s) == IF s = <<>> THEN 0 ELSE s[1] + SumSeq(Tail(s))

\* a float as an exact fraction
Frac(n, d) == [num |-> n, den |-> d]

FracLeq(a, b) == a.num * b.den <= b.num * a.den

RECURSIVE Gcd(_, _)
Gcd(a, b) == IF b = 0 THEN a ELSE Gcd(b, a % b)

\* the fraction n/d (d > 0) in lowest terms
Reduced(n, d) == LET g == Gcd(Abs(n), d) IN Frac(n \div g, d \div g)

SeqMin(s) == CHOOSE x \in {s[i] : i \in 1..Len(s)} : \A i \in 1..Len(s) : x <= s[i]

SeqMax(s) == CHOOSE x \in {s[i] : i \in 1..Len(s)} : \A i \in 1..Len(s) : x >= s[i]

Contains(s, x) == \E i \in 1..Len(s) : s[i] = x

RemoveNothing(s, x) == s

\* list.remove(x): the first occurrence goes
RECURSIVE Remove(_, _)
Remove(s, x) ==
    IF s = <<>> THEN <<>>
    ELSE IF s[1] = x THEN Tail(s) ELSE <<s[1]>> \o Remove(Tail(s), x)

----------------------------------------------------------------------------
(* coverage_calculation.py: generate_coverage_map *)

ZeroMap(n) == [j \in 1..(n * n) |-> 0]

\* coverage[idx] = 1 on a Python list: a negative idx counts from the end,
\* an idx outside -len..len-1 raises IndexError
ListSetOne(cov, idx) ==
    LET len == Len(cov) IN
    IF 0 <= idx /\ idx < len THEN [status |-> "ok", list |-> [cov EXCEPT ![idx + 1] = 1]]
    ELSE IF -len <= idx /\ idx < 0 THEN [status |-> "ok", list |-> [cov EXCEPT ![len + idx + 1] = 1]]
    ELSE [status |-> "IndexError", list |-> cov]

EdgeIndexWrong(nodes, n, i) == nodes[i + 1] + nodes[i + 2] * n

\* estimated_nodes[i]*number_of_nodes + estimated_nodes[i+1]
EdgeIndex(nodes, n, i) == nodes[i + 1] * n + nodes[i + 2]

\* for i in range(len(estimated_nodes)-1): coverage[...] = 1
RECURSIVE MapLoop(_, _, _, _)
MapLoop(nodes, n, cov, i) ==
    IF i >= Len(nodes) - 1 THEN [status |-> "ok", list |-> cov]
    ELSE LET r == ListSetOne(cov, EdgeIndex(nodes, n, i)) IN
         IF r.status = "ok" THEN MapLoop(nodes, n, r.list, i + 1) ELSE r

generate_coverage_map(nodes, n) == MapLoop(nodes, n, ZeroMap(n), 0)

----------------------------------------------------------------------------
(* coverage_calculation.py: calculate_coverage *)

LogicalOrWrong(a, b) == [j \in 1..Len(a) |-> IF b[j] # 0 THEN 1 ELSE 0]

\* np.logical_or(a, b), elementwise; True counts as 1
LogicalOr(a, b) == [j \in 1..Len(a) |-> IF a[j] # 0 \/ b[j] # 0 THEN 1 ELSE 0]

CoverageRatioWrong(cov, n) == Frac(SumSeq(cov), n)

\* sum(coverage_summarized)/(no_components * no_components)
CoverageRatio(cov, n) == Frac(SumSeq(cov), n * n)

----------------------------------------------------------------------------
(* measures.py: normalize *)

\* a list of floats with a common denominator: element i is vals[i] / den
Curve(v, d) == [vals |-> v, den |-> d]

ValueAt(c, i) == Reduced(c.vals[i], c.den)

\* curve = [0.0] + curve; flat: [0.0] + [1.0]*(len(curve)-1);
\* else [(x - min_val) / (max_val - min_val) for x in curve[1:]]
normalize(curve) ==
    LET c == <<0>> \o curve
        min_val == SeqMin(c)
        max_val == SeqMax(c)
    IN  IF min_val = max_val
        THEN Curve(<<0>> \o [i \in 1..(Len(c) - 1) |-> 1], 1)
        ELSE Curve([i \in 1..(Len(c) - 1) |-> c[i + 1] - min_val], max_val - min_val)

----------------------------------------------------------------------------
(* measures.py: calculate_coverage_similarity *)

\* np.gradient(f), unit spacing: one-sided differences at both ends, central
\* differences (f[i+1] - f[i-1]) / 2 inside; fewer than 2 elements raise ValueError
GradientDefined(c) == Len(c.vals) >= 2

Gradient(c) ==
    LET v == c.vals
        n == Len(v)
    IN  Curve([i \in 1..n |-> IF i = 1 THEN 2 * (v[2] - v[1])
                               ELSE IF i = n THEN 2 * (v[n] - v[n - 1])
                               ELSE v[i + 1] - v[i - 1]],
              2 * c.den)

\* [i for i in range(gradient_number) if bitmap[i] > 0], bitmap[i] = 1 iff gradient[i] > 0
RECURSIVE IncreaseIndicesFrom(_, _, _)
IncreaseIndicesFrom(g, gradient_number, i) ==
    IF i >= gradient_number THEN <<>>
    ELSE (IF g.vals[i + 1] > 0 THEN <<i>> ELSE <<>>)
         \o IncreaseIndicesFrom(g, gradient_number, i + 1)

IncreaseIndices(g, gradient_number) == IncreaseIndicesFrom(g, gradient_number, 0)

\* a candidate or accepted match (index_fuzzer, index_hmm, dist)
Match(f, h) == [f |-> f, h |-> h, dist |-> Abs(f - h)]

\* the inner loop over indices_hmm, with its continue and its break
RECURSIVE CandidatesOf(_, _, _, _)
CandidatesOf(current_fuzzer, indices_hmm, j, w) ==
    IF j > Len(indices_hmm) THEN <<>>
    ELSE LET current_hmm == indices_hmm[j] IN
         IF current_fuzzer > current_hmm + w
            THEN CandidatesOf(current_fuzzer, indices_hmm, j + 1, w)
         ELSE IF current_fuzzer + w < current_hmm
            THEN <<>>
         ELSE <<Match(current_fuzzer, current_hmm)>>
              \o CandidatesOf(current_fuzzer, indices_hmm, j + 1, w)

\* the outer loop over indices_fuzzer
RECURSIVE PossibleMatches(_, _, _)
PossibleMatches(indices_fuzzer, indices_hmm, w) ==
    IF indices_fuzzer = <<>> THEN <<>>
    ELSE CandidatesOf(indices_fuzzer[1], indices_hmm, 1, w)
         \o PossibleMatches(Tail(indices_fuzzer), indices_hmm, w)

MaxDist(ms) == IF ms = <<>> THEN 0 ELSE SeqMax([i \in 1..Len(ms) |-> ms[i].dist])

\* sorted(possible_matches, key=lambda x: x[2]): stable, so candidates of equal
\* distance keep the order in which they were generated
RECURSIVE SortFrom(_, _, _)
SortFrom(ms, d, maxd) ==
    IF d > maxd THEN <<>>
    ELSE SelectSeq(ms, LAMBDA m : m.dist = d) \o SortFrom(ms, d + 1, maxd)

\* the candidates by descending distance
RECURSIVE SortDownFrom(_, _)
SortDownFrom(ms, d) ==
    IF d < 0 THEN <<>>
    ELSE SelectSeq(ms, LAMBDA m : m.dist = d) \o SortDownFrom(ms, d - 1)

SortedByDistReversed(ms) == SortDownFrom(ms, MaxDist(ms))

SortedByDist(ms) == SortFrom(ms, 0, MaxDist(ms))

AcceptsAlways(m, uf, uh) == TRUE

\* if index_fuzzer in unmatched_fuzzer and index_hmm in unmatched_hmm
Accepts(m, uf, uh) == Contains(uf, m.f) /\ Contains(uh, m.h)

\* the state of the greedy loop
Greedy(ms, uf, uh) == [matches |-> ms, unmatched_fuzzer |-> uf, unmatched_hmm |-> uh]

\* one iteration of the greedy loop on candidate m
GreedyVisit(g, m) ==
    IF Accepts(m, g.unmatched_fuzzer, g.unmatched_hmm)
    THEN Greedy(Append(g.matches, m), Remove(g.unmatched_fuzzer, m.f),
                Remove(g.unmatched_hmm, m.h))
    ELSE g

\* the common denominator of the summands of the score: max_distance^2 times the
\* squares of the two gradients' denominators
ScoreDen(gf, gh, w) == w * w * gf.den * gf.den * gh.den * gh.den

MatchedTermSigned(m, gf, gh, w) ==
    (m.f - m.h) * gf.den * gh.den * gf.den * gh.den * w
    + w * w * (gf.vals[m.f + 1] * gh.den - gh.vals[m.h + 1] * gf.den)
            * (gf.vals[m.f + 1] * gh.den - gh.vals[m.h + 1] * gf.den)

\* ((index_fuzzer - index_hmm) / max_distance) ** 2
\*   + (gradient_fuzzer[index_fuzzer] - gradient_hmm[index_hmm]) ** 2,
\* as a numerator over ScoreDen
MatchedTerm(m, gf, gh, w) ==
    (m.f - m.h) * (m.f - m.h) * gf.den * gf.den * gh.den * gh.den
    + w * w * (gf.vals[m.f + 1] * gh.den - gh.vals[m.h + 1] * gf.den)
            * (gf.vals[m.f + 1] * gh.den - gh.vals[m.h + 1] * gf.den)

RECURSIVE MatchedSum(_, _, _, _)
MatchedSum(ms, gf, gh, w) ==
    IF ms = <<>> THEN 0
    ELSE MatchedTerm(ms[1], gf, gh, w) + MatchedSum(Tail(ms), gf, gh, w)

\* for unmatched in ...: score += 2
UnmatchedPenalty == 2

\* the scoring part: the sum over the matches, 2 per unmatched event, then
\* score / (2 * number_indices). Dividing by max_distance = 0 (with a match) or by
\* number_indices = 0 raises ZeroDivisionError.
Scoring(g, gf, gh, w, n_indices) ==
    IF g.matches # <<>> /\ w = 0 THEN [status |-> "ZeroDivisionError", value |-> Frac(0, 1)]
    ELSE IF n_indices = 0 THEN [status |-> "ZeroDivisionError", value |-> Frac(0, 1)]
    ELSE LET q == IF g.matches = <<>> THEN 1 ELSE ScoreDen(gf, gh, w)
             total == MatchedSum(g.matches, gf, gh, w)
                      + UnmatchedPenalty * q * (Len(g.unmatched_fuzzer) + Len(g.unmatched_hmm))
         IN  [status |-> "ok", value |-> Reduced(total, q * 2 * n_indices)]

\* the whole greedy loop
RECURSIVE GreedyAll(_, _)
GreedyAll(g, cands) ==
    IF cands = <<>> THEN g ELSE GreedyAll(GreedyVisit(g, cands[1]), Tail(cands))

\* calculate_coverage_similarity(a, b, w) as a function of its arguments
Similarity(a, b, w) ==
    LET na == normalize(a)
        nb == normalize(b)
    IN  IF ~GradientDefined(na) \/ ~GradientDefined(nb)
        THEN [status |-> "ValueError", value |-> Frac(0, 1)]
        ELSE LET ga == Gradient(na)
                 gb == Gradient(nb)
                 gradient_number == Min2(Len(ga.vals), Len(gb.vals))
                 ia == IncreaseIndices(ga, gradient_number)
                 ib == IncreaseIndices(gb, gradient_number)
                 g == GreedyAll(Greedy(<<>>, ia, ib), SortedByDist(PossibleMatches(ia, ib, w)))
             IN  Scoring(g, ga, gb, w, Len(ia) + Len(ib))

----------------------------------------------------------------------------
(* hmms.py: create_model *)

\* how a call of model.from_samples can end: it returns, or raises one of the two
\* numerical errors, or raises any other Exception
FitOutcomes == {"fitted", "LinAlgError", "UFuncTypeError", "Exception"}

LoopConditionOffByOne(succ, n, bound) == ~succ /\ n <= bound

\* while not successful and i < threshold
LoopCondition(succ, n, bound) == ~succ /\ n < bound

HandlerNumericalOnly(outcome) ==
    IF outcome \in {"LinAlgError", "UFuncTypeError"} THEN "pass"
    ELSE IF outcome = "fitted" THEN "else"
    ELSE "propagate"

\* the try statement's clause that runs for an outcome of from_samples
Handler(outcome) ==
    IF outcome \in {"LinAlgError", "UFuncTypeError"} THEN "pass"
    ELSE IF outcome = "Exception" THEN "print"
    ELSE IF outcome = "fitted" THEN "else"
    ELSE "propagate"

----------------------------------------------------------------------------
(* hmm_coverage.py and preprocess.py *)

\* an assert statement with the given condition raises iff __debug__ holds and the
\* condition does not
AssertFails(dbg, cond) == dbg /\ ~cond

\* assert preprocessor_type == "pca" or preprocessor_type == "ae"
\*     or preprocessor_type == "ae_chiu"
InitAccepts(t) == t \in {"pca", "ae", "ae_chiu"}

\* if preprocessor_type == "pca": joblib.load(...) else: tf.keras.models.load_model(...)
PreprocessorLoader(t) == IF t = "pca" THEN "joblib" ELSE "keras"

\* preprocess: the branch taken for a model_type
PreprocessDispatch(model_type) ==
    IF model_type = "pca" THEN "preprocess_pca"
    ELSE IF model_type = "ae" THEN "preprocess_autoencoder"
    ELSE IF model_type = "chiu" THEN "preprocess_chiu"
    ELSE "ValueError"

InitializedAfterAnyLoad(outcome) == outcome \in {"ok", "model_nodes"}

\* initialized = True is the last statement of init: it runs iff nothing before it raised
InitializedAfter(outcome) == outcome = "ok"

\* where the loading part of init (lines 47-53) can raise: loading the preprocessor,
\* loading the model, reading config['model_nodes']; or nowhere
LoadOutcomes == {"preprocessor", "model", "model_nodes", "ok"}

\* if len(preprocessed_data) != 1: print("[Warning] ...")
SingleWarns(batch) == Len(batch) # 1

----------------------------------------------------------------------------
(* Inputs *)

NodeCounts == 1..MaxNodes

\* decoded paths of a model with n states
Paths(n, maxLen) == SeqsUpTo(0..(n - 1), maxLen)

\* paths whose values may lie outside [0, n)
AnyPaths(n, maxLen) == SeqsUpTo((-1)..n, maxLen)

\* what joblib.load can return for a file when `room` more sequences fit the bound
FileContents(n, room) == SeqsUpTo(Paths(n, MaxSeqLen), room)

\* coverage curves: levels 0..MaxLevel stand for the floats level / MaxLevel
Curves == SeqsUpTo(0..MaxLevel, MaxCurveLen)

Windows == 0..MaxWindow

\* values of config['preprocessor_type']
ConfigTypes == {"pca", "ae", "ae_chiu", "chiu", "other"}

\* what preprocess returns for a capture that load_and_split_data_syn split into k
\* streams: one sequence per stream (the sequences are named by their position)
Batch(k) == [j \in 1..k |-> j]

----------------------------------------------------------------------------
(* What an entry point leaves alone *)

IdleCov ==
    /\ number_of_nodes = 1
    /\ estimated_nodes = <<>>
    /\ coverage = [status |-> "none", list |-> <<>>]
    /\ files = <<>>
    /\ round_ctr = 0
    /\ data = <<>>
    /\ seq_idx = 0
    /\ loaded = <<>>
    /\ coverage_summarized = <<>>
    /\ cov_over_time = <<>>

NoScore == [status |-> "none", value |-> Frac(0, 1)]

NoCurve == [vals |-> <<>>, den |-> 1]

\* max_distance=5
DefaultMaxDistance == 5

IdleScore ==
    /\ fuzzer_in = <<>>
    /\ hmm_in = <<>>
    /\ max_distance = DefaultMaxDistance
    /\ fuzzer = NoCurve
    /\ hmm = NoCurve
    /\ number_indices = 0
    /\ sorted_matches = <<>>
    /\ match_pos = 0
    /\ matches = <<>>
    /\ unmatched_fuzzer = <<>>
    /\ unmatched_hmm = <<>>
    /\ score = NoScore

IdleFit ==
    /\ threshold = 0
    /\ fit_i = 0
    /\ successful = FALSE
    /\ model = "none"
    /\ outcomes = <<>>
    /\ fit_result = "none"

IdleHook ==
    /\ debug = TRUE
    /\ initialized = FALSE
    /\ preprocessor = "none"
    /\ preprocessor_type = ""
    /\ preprocessed_data = <<>>
    /\ warned = FALSE
    /\ steps = <<>>
    /\ raised = "none"
    /\ init_completed = FALSE

----------------------------------------------------------------------------
(* Entry point generate_coverage_map *)

InitMap ==
    /\ pc = "map_call"
    /\ number_of_nodes \in NodeCounts
    /\ estimated_nodes \in AnyPaths(number_of_nodes, MaxPathLen)
    /\ coverage = [status |-> "none", list |-> <<>>]
    /\ files = <<>>
    /\ round_ctr = 0
    /\ data = <<>>
    /\ seq_idx = 0
    /\ loaded = <<>>
    /\ coverage_summarized = <<>>
    /\ cov_over_time = <<>>
    /\ IdleScore
    /\ IdleFit
    /\ IdleHook

GenerateCoverageMap ==
    /\ pc = "map_call"
    /\ coverage' = generate_coverage_map(estimated_nodes, number_of_nodes)
    /\ pc' = IF coverage'.status = "ok" THEN "map_done" ELSE "map_raised"
    /\ UNCHANGED <<number_of_nodes, estimated_nodes, files, round_ctr, data, seq_idx,
                   loaded, coverage_summarized, cov_over_time>>
    /\ UNCHANGED <<scoreVars, fitVars, hookVars>>

NextMap == GenerateCoverageMap

SpecMap == InitMap /\ [][NextMap]_vars

----------------------------------------------------------------------------
(* Entry point calculate_coverage *)

InitCov ==
    /\ pc = "cov_loop"
    /\ number_of_nodes \in NodeCounts
    /\ files = <<>>
    /\ estimated_nodes = <<>>
    /\ coverage = [status |-> "none", list |-> <<>>]
    /\ round_ctr = 0
    /\ data = <<>>
    /\ seq_idx = 0
    /\ loaded = <<>>
    /\ coverage_summarized = ZeroMap(number_of_nodes)
    /\ cov_over_time = <<>>
    /\ IdleScore
    /\ IdleFit
    /\ IdleHook

\* for file in files: round_ctr += 1; data = joblib.load(...)
\* (the list has another file; lists of up to MaxFiles files are covered)
CovLoadFile ==
    /\ pc = "cov_loop"
    /\ seq_idx = Len(data)
    /\ Len(files) < MaxFiles
    /\ files' = Append(files, Len(files) + 1)
    /\ round_ctr' = round_ctr + 1
    /\ \E d \in FileContents(number_of_nodes, MaxSeqs - Len(loaded)) :
          /\ data' = d
          /\ loaded' = loaded \o d
    /\ seq_idx' = 0
    /\ UNCHANGED <<pc, number_of_nodes, estimated_nodes, coverage,
                   coverage_summarized, cov_over_time>>
    /\ UNCHANGED <<scoreVars, fitVars, hookVars>>

\* one iteration of: for seq in data
CovProcessSeq ==
    /\ pc = "cov_loop"
    /\ seq_idx < Len(data)
    /\ estimated_nodes' = data[seq_idx + 1]
    /\ coverage' = generate_coverage_map(estimated_nodes', number_of_nodes)
    /\ IF coverage'.status = "ok"
         THEN /\ coverage_summarized' = LogicalOr(coverage_summarized, coverage'.list)
              /\ cov_over_time' = Append(cov_over_time,
                                         CoverageRatio(coverage_summarized', number_of_nodes))
              /\ seq_idx' = seq_idx + 1
              /\ pc' = pc
         ELSE /\ pc' = "cov_raised"
              /\ UNCHANGED <<coverage_summarized, cov_over_time, seq_idx>>
    /\ UNCHANGED <<number_of_nodes, files, round_ctr, data, loaded>>
    /\ UNCHANGED <<scoreVars, fitVars, hookVars>>

\* the list of files is exhausted: return coverage_summarized, cov_over_time
CovReturn ==
    /\ pc = "cov_loop"
    /\ seq_idx = Len(data)
    /\ pc' = "cov_done"
    /\ UNCHANGED <<covVars, scoreVars, fitVars, hookVars>>

NextCov == CovLoadFile \/ CovProcessSeq \/ CovReturn

SpecCov == InitCov /\ [][NextCov]_vars

----------------------------------------------------------------------------
(* Entry point calculate_coverage_similarity *)

InitScore ==
    /\ pc = "score_call"
    /\ IdleCov
    /\ fuzzer_in \in Curves
    /\ hmm_in \in Curves
    /\ max_distance \in Windows
    /\ fuzzer = NoCurve
    /\ hmm = NoCurve
    /\ number_indices = 0
    /\ sorted_matches = <<>>
    /\ match_pos = 0
    /\ matches = <<>>
    /\ unmatched_fuzzer = <<>>
    /\ unmatched_hmm = <<>>
    /\ score = NoScore
    /\ IdleFit
    /\ IdleHook

\* fuzzer = normalize(fuzzer); hmm = normalize(hmm)
ScoreNormalize ==
    /\ pc = "score_call"
    /\ fuzzer' = normalize(fuzzer_in)
    /\ hmm' = normalize(hmm_in)
    /\ pc' = "score_events"
    /\ UNCHANGED <<fuzzer_in, hmm_in, max_distance, number_indices, sorted_matches,
                   match_pos, matches, unmatched_fuzzer, unmatched_hmm, score>>
    /\ UNCHANGED <<covVars, fitVars, hookVars>>

\* gradients, increase indices, candidates and their sort
ScoreEvents ==
    /\ pc = "score_events"
    /\ IF ~GradientDefined(fuzzer) \/ ~GradientDefined(hmm)
         THEN /\ score' = [status |-> "ValueError", value |-> Frac(0, 1)]
              /\ pc' = "score_raised"
              /\ UNCHANGED <<number_indices, sorted_matches, match_pos, matches,
                             unmatched_fuzzer, unmatched_hmm>>
         ELSE LET gradient_fuzzer == Gradient(fuzzer)
                  gradient_hmm == Gradient(hmm)
                  gradient_number == Min2(Len(gradient_fuzzer.vals), Len(gradient_hmm.vals))
                  indices_fuzzer == IncreaseIndices(gradient_fuzzer, gradient_number)
                  indices_hmm == IncreaseIndices(gradient_hmm, gradient_number)
              IN  /\ number_indices' = Len(indices_fuzzer) + Len(indices_hmm)
                  /\ sorted_matches' =
                        SortedByDist(PossibleMatches(indices_fuzzer, indices_hmm, max_distance))
                  /\ unmatched_fuzzer' = indices_fuzzer
                  /\ unmatched_hmm' = indices_hmm
                  /\ matches' = <<>>
                  /\ match_pos' = 0
                  /\ pc' = "score_greedy"
                  /\ UNCHANGED score
    /\ UNCHANGED <<fuzzer_in, hmm_in, max_distance, fuzzer, hmm>>
    /\ UNCHANGED <<covVars, fitVars, hookVars>>

\* one iteration of: for index_fuzzer, index_hmm, dist in sorted_matches
ScoreGreedyStep ==
    /\ pc = "score_greedy"
    /\ match_pos < Len(sorted_matches)
    /\ LET g == GreedyVisit(Greedy(matches, unmatched_fuzzer, unmatched_hmm),
                            sorted_matches[match_pos + 1])
       IN  /\ matches' = g.matches
           /\ unmatched_fuzzer' = g.unmatched_fuzzer
           /\ unmatched_hmm' = g.unmatched_hmm
    /\ match_pos' = match_pos + 1
    /\ UNCHANGED <<pc, fuzzer_in, hmm_in, max_distance, fuzzer, hmm, number_indices,
                   sorted_matches, score>>
    /\ UNCHANGED <<covVars, fitVars, hookVars>>

\* the scoring and the return
ScoreFinish ==
    /\ pc = "score_greedy"
    /\ match_pos = Len(sorted_matches)
    /\ score' = Scoring(Greedy(matches, unmatched_fuzzer, unmatched_hmm),
                        Gradient(fuzzer), Gradient(hmm), max_distance, number_indices)
    /\ pc' = IF score'.status = "ok" THEN "score_done" ELSE "score_raised"
    /\ UNCHANGED <<fuzzer_in, hmm_in, max_distance, fuzzer, hmm, number_indices,
                   sorted_matches, match_pos, matches, unmatched_fuzzer, unmatched_hmm>>
    /\ UNCHANGED <<covVars, fitVars, hookVars>>

NextScore == ScoreNormalize \/ ScoreEvents \/ ScoreGreedyStep \/ ScoreFinish

SpecScore == InitScore /\ [][NextScore]_vars

----------------------------------------------------------------------------
(* Entry point create_model *)

InitFit ==
    /\ pc = "fit_loop"
    /\ IdleCov
    /\ IdleScore
    /\ threshold \in 0..MaxThreshold
    /\ fit_i = 0
    /\ successful = FALSE
    /\ model = "unfitted"
    /\ outcomes = <<>>
    /\ fit_result = "none"
    /\ IdleHook

\* one iteration of the while loop: try from_samples, handle how it ended, i = i + 1
FitAttempt ==
    /\ pc = "fit_loop"
    /\ LoopCondition(successful, fit_i, threshold)
    /\ \E outcome \in FitOutcomes :
          /\ outcomes' = Append(outcomes, outcome)
          /\ IF Handler(outcome) = "propagate"
               THEN /\ pc' = "fit_raised"
                    /\ UNCHANGED <<fit_i, successful, model>>
               ELSE /\ successful' = (Handler(outcome) = "else")
                    /\ model' = IF outcome = "fitted" THEN "fitted" ELSE model
                    /\ fit_i' = fit_i + 1
                    /\ pc' = pc
    /\ UNCHANGED <<threshold, fit_result>>
    /\ UNCHANGED <<covVars, scoreVars, hookVars>>

\* after the loop: bake and return the model, or return None
FitReturn ==
    /\ pc = "fit_loop"
    /\ ~LoopCondition(successful, fit_i, threshold)
    /\ IF successful
         THEN /\ model' = "baked"
              /\ fit_result' = "model"
         ELSE /\ fit_result' = "None"
              /\ UNCHANGED model
    /\ pc' = "fit_done"
    /\ UNCHANGED <<threshold, fit_i, successful, outcomes>>
    /\ UNCHANGED <<covVars, scoreVars, hookVars>>

NextFit == FitAttempt \/ FitReturn

SpecFit == InitFit /\ [][NextFit]_vars

----------------------------------------------------------------------------
(* The module hmm_coverage: calls of init and calculate_coverage, one after another *)

HookReady == pc \in {"hook_loaded", "init_returned", "init_raised",
                     "calc_returned", "calc_raised"}

InitHook ==
    /\ pc = "hook_loaded"
    /\ number_of_nodes = 0
    /\ estimated_nodes = <<>>
    /\ coverage = [status |-> "none", list |-> <<>>]
    /\ files = <<>>
    /\ round_ctr = 0
    /\ data = <<>>
    /\ seq_idx = 0
    /\ loaded = <<>>
    /\ coverage_summarized = <<>>
    /\ cov_over_time = <<>>
    /\ IdleScore
    /\ IdleFit
    /\ debug \in BOOLEAN
    /\ initialized = FALSE
    /\ preprocessor = "none"
    /\ preprocessor_type = ""
    /\ preprocessed_data = <<>>
    /\ warned = FALSE
    /\ steps = <<>>
    /\ raised = "none"
    /\ init_completed = FALSE

\* init, lines 36-46: read the config, store preprocessor_type, assert it is known
HookInitType ==
    /\ HookReady
    /\ steps' = <<>>
    /\ \E t \in ConfigTypes :
          /\ preprocessor_type' = t
          /\ IF AssertFails(debug, InitAccepts(t))
               THEN /\ raised' = "AssertionError:46"
                    /\ pc' = "init_raised"
               ELSE /\ raised' = "none"
                    /\ pc' = "init_load"
    /\ UNCHANGED <<debug, initialized, preprocessor, preprocessed_data, warned,
                   init_completed>>
    /\ UNCHANGED <<covVars, scoreVars, fitVars>>

\* init, lines 47-55: load the preprocessor and the model, read the node count, set
\* initialized
HookInitLoad ==
    /\ pc = "init_load"
    /\ \E outcome \in LoadOutcomes, n \in NodeCounts :
          /\ steps' = Append(steps, PreprocessorLoader(preprocessor_type))
          /\ preprocessor' = IF outcome = "preprocessor" THEN preprocessor
                             ELSE PreprocessorLoader(preprocessor_type)
          /\ model' = IF outcome \in {"preprocessor", "model"} THEN model ELSE "loaded"
          /\ number_of_nodes' = IF outcome = "ok" THEN n ELSE number_of_nodes
          /\ initialized' = IF InitializedAfter(outcome) THEN TRUE ELSE initialized
          /\ init_completed' = IF outcome = "ok" THEN TRUE ELSE init_completed
          /\ raised' = IF outcome = "ok" THEN "none" ELSE "Exception:" \o outcome
          /\ pc' = IF outcome = "ok" THEN "init_returned" ELSE "init_raised"
    /\ UNCHANGED <<debug, preprocessor_type, preprocessed_data, warned>>
    /\ UNCHANGED <<estimated_nodes, coverage, files, round_ctr, data, seq_idx, loaded,
                   coverage_summarized, cov_over_time>>
    /\ UNCHANGED <<threshold, fit_i, successful, outcomes, fit_result>>
    /\ UNCHANGED scoreVars

\* calculate_coverage, lines 64-65: if not initialized: raise AssertionError(...)
HookCalcCheck ==
    /\ HookReady
    /\ steps' = <<>>
    /\ preprocessed_data' = <<>>
    /\ warned' = FALSE
    /\ IF ~initialized
         THEN /\ raised' = "AssertionError:65"
              /\ pc' = "calc_raised"
         ELSE /\ raised' = "none"
              /\ pc' = "calc_load"
    /\ UNCHANGED <<debug, initialized, preprocessor, preprocessor_type, init_completed>>
    /\ UNCHANGED <<covVars, scoreVars, fitVars>>

\* calculate_coverage, lines 68-69: load_and_split_data_syn, which raises or returns
\* one or more streams, then preprocess
HookCalcPreprocess ==
    /\ pc = "calc_load"
    /\ \/ /\ steps' = Append(steps, "load_and_split_data_syn")
          /\ raised' = "Exception:load_data"
          /\ pc' = "calc_raised"
          /\ UNCHANGED preprocessed_data
       \/ \E k \in 1..MaxStreams :
             /\ steps' = steps \o <<"load_and_split_data_syn", "preprocess">>
             /\ IF PreprocessDispatch(preprocessor_type) = "ValueError"
                  THEN /\ raised' = "ValueError:56"
                       /\ pc' = "calc_raised"
                       /\ UNCHANGED preprocessed_data
                  ELSE /\ preprocessed_data' = Batch(k)
                       /\ pc' = "calc_single"
                       /\ UNCHANGED raised
    /\ UNCHANGED <<debug, initialized, preprocessor, preprocessor_type, warned,
                   init_completed>>
    /\ UNCHANGED <<covVars, scoreVars, fitVars>>

\* calculate_coverage, lines 70-72: assert len(preprocessed_data) == 1, then
\* calculate_coverage_single: warn, decode preprocessed_data[0], map the path
HookCalcSingle ==
    /\ pc = "calc_single"
    /\ IF AssertFails(debug, Len(preprocessed_data) = 1)
         THEN /\ raised' = "AssertionError:70"
              /\ pc' = "calc_raised"
              /\ UNCHANGED <<warned, steps, estimated_nodes, coverage>>
         ELSE /\ warned' = SingleWarns(preprocessed_data)
              /\ steps' = Append(steps, "viterbi")
              /\ \E path \in Paths(number_of_nodes, MaxSeqLen) :
                    /\ estimated_nodes' = path
                    /\ coverage' = generate_coverage_map(path, number_of_nodes)
              /\ raised' = IF coverage'.status = "ok" THEN "none" ELSE coverage'.status
              /\ pc' = IF coverage'.status = "ok" THEN "calc_returned" ELSE "calc_raised"
    /\ UNCHANGED <<debug, initialized, preprocessor, preprocessor_type, preprocessed_data,
                   init_completed>>
    /\ UNCHANGED <<number_of_nodes, files, round_ctr, data, seq_idx, loaded,
                   coverage_summarized, cov_over_time>>
    /\ UNCHANGED <<scoreVars, fitVars>>

NextHook ==
    HookInitType \/ HookInitLoad \/ HookCalcCheck \/ HookCalcPreprocess \/ HookCalcSingle

SpecHook == InitHook /\ [][NextHook]_vars

----------------------------------------------------------------------------
(* The entry points together *)

Init == InitMap \/ InitCov \/ InitScore \/ InitFit \/ InitHook

Next == NextMap \/ NextCov \/ NextScore \/ NextFit \/ NextHook

Spec == Init /\ [][Next]_vars

----------------------------------------------------------------------------
(* Properties of generate_coverage_map *)

InRange(path, n) == \A i \in 1..Len(path) : 0 <= path[i] /\ path[i] < n

\* the transitions a path traverses, stated on the path itself
Edges(path) == {<<path[i], path[i + 1]>> : i \in 1..(Len(path) - 1)}

BitsSet(list) == Cardinality({j \in 1..Len(list) : list[j] = 1})

\* C1: for every N >= 1 and every path with all values in [0,N), generate_coverage_map
\* returns (no error) a vector of exactly N*N entries, each 0 or 1, whose entry s*N+d is
\* 1 exactly when (s,d) is a consecutive pair of the path; so at most len(path)-1 bits
\* are set, and a path of length 0 or 1 gives the all-zero vector.
C1_MapIsEdgeSet ==
    (pc \in {"map_done", "map_raised"} /\ InRange(estimated_nodes, number_of_nodes)) =>
        LET n == number_of_nodes
            m == coverage.list
        IN  /\ pc = "map_done"
            /\ coverage.status = "ok"
            /\ Len(m) = n * n
            /\ \A s, d \in 0..(n - 1) :
                  m[s * n + d + 1] = (IF <<s, d>> \in Edges(estimated_nodes) THEN 1 ELSE 0)
            /\ Len(estimated_nodes) >= 1 => BitsSet(m) <= Len(estimated_nodes) - 1
            /\ Len(estimated_nodes) <= 1 => BitsSet(m) = 0

\* a path of three in-range states with two different transitions has been mapped
C1_Witness ==
    /\ pc = "map_done"
    /\ InRange(estimated_nodes, number_of_nodes)
    /\ Len(estimated_nodes) = 3
    /\ estimated_nodes[1] # estimated_nodes[2]
    /\ BitsSet(coverage.list) = 2

\* C11: for every path that contains a state value outside [0,N),
\* generate_coverage_map fails with an index error and returns no bitmap; it never
\* silently sets a bit for such a path.
C11_OutOfRangePathRaises ==
    (pc \in {"map_done", "map_raised"} /\ Len(estimated_nodes) >= 2
        /\ ~InRange(estimated_nodes, number_of_nodes)) =>
        /\ pc = "map_raised"
        /\ coverage.status = "IndexError"

----------------------------------------------------------------------------
(* Properties of calculate_coverage *)

\* sequences processed so far: all that were read but the rest of the open file
Processed == Len(loaded) - (Len(data) - seq_idx)

\* the transitions traversed by the first j sequences read
EdgesOfFirst(j) == UNION {Edges(loaded[m]) : m \in 1..j}

\* C2: the coverage trace is non-decreasing: every value appended to cov_over_time is
\* greater than or equal to every value appended before it.
C2_TraceNonDecreasing ==
    \A j, m \in 1..Len(cov_over_time) :
        j < m => FracLeq(cov_over_time[j], cov_over_time[m])

\* two sequences were processed, the second adding a transition the first had not
C2_Witness ==
    /\ Len(cov_over_time) = 2
    /\ ~FracLeq(cov_over_time[2], cov_over_time[1])
    /\ cov_over_time[1].num > 0

\* C3: after j sequences the trace has j entries, its j-th entry being
\* popcount(OR of the bitmaps of the first j sequences) / N*N, in the order the
\* sequences were read; at return the trace has one entry per sequence read and the
\* returned bitmap is the OR of all their bitmaps.
C3_TraceIsCumulativeCoverage ==
    LET n == number_of_nodes
        all == EdgesOfFirst(Processed)
    IN  (pc \in {"cov_loop", "cov_done"}) =>
            /\ Len(cov_over_time) = Processed
            /\ \A j \in 1..Len(cov_over_time) :
                  cov_over_time[j] = Frac(Cardinality(EdgesOfFirst(j)), n * n)
            /\ coverage_summarized =
                  [b \in 1..(n * n) |-> IF <<(b - 1) \div n, (b - 1) % n>> \in all THEN 1 ELSE 0]
            /\ pc = "cov_done" => Len(cov_over_time) = Len(loaded)

\* two files were read, one sequence each, and the call returned
C3_Witness ==
    /\ pc = "cov_done"
    /\ round_ctr = 2
    /\ Len(loaded) = 2
    /\ Len(data) = 1
    /\ cov_over_time[1].num = 1
    /\ cov_over_time[2].num = 2

----------------------------------------------------------------------------
(* Properties of calculate_coverage_similarity *)

ScoreEnded == pc \in {"score_done", "score_raised"}

IsFlat(curve) == \A j, k \in 1..Len(curve) : curve[j] = curve[k]

\* C4: the score is symmetric in its two curves: whenever the call returns a score,
\* the call with the two curves exchanged (same window, same stable sort on distance)
\* returns the same score.
C4_ScoreSymmetric ==
    pc = "score_done" => Similarity(hmm_in, fuzzer_in, max_distance) = score

\* a score was returned for two different curves after a candidate was turned down
\* and a match at a distance above 0 was accepted
C4_Witness ==
    /\ pc = "score_done"
    /\ fuzzer_in # hmm_in
    /\ Len(matches) < Len(sorted_matches)
    /\ \E k \in 1..Len(matches) : matches[k].dist > 0
    /\ score.value.num > 0

\* C5: greedy matching never assigns an event index twice: at every step of the
\* greedy loop and at its end no index of either curve occurs in two accepted matches,
\* and an accepted index is no longer among the unmatched ones.
C5_NoEventMatchedTwice ==
    /\ \A j, k \in 1..Len(matches) :
          j # k => (matches[j].f # matches[k].f /\ matches[j].h # matches[k].h)
    /\ \A k \in 1..Len(matches) :
          /\ ~Contains(unmatched_fuzzer, matches[k].f)
          /\ ~Contains(unmatched_hmm, matches[k].h)

\* the greedy loop ended with two accepted matches and a candidate turned down
C5_Witness ==
    /\ pc = "score_greedy"
    /\ match_pos = Len(sorted_matches)
    /\ Len(matches) = 2
    /\ match_pos > Len(matches)

\* C12: for every curve A that yields at least one growth event, score(A, A) is
\* exactly 0.0: every event of A is matched to itself at distance 0 with identical
\* gradient and no event is left unmatched.
C12_SelfScoreZero ==
    (ScoreEnded /\ fuzzer_in = hmm_in /\ max_distance > 0 /\ number_indices > 0) =>
        /\ pc = "score_done"
        /\ score = [status |-> "ok", value |-> Frac(0, 1)]
        /\ unmatched_fuzzer = <<>>
        /\ unmatched_hmm = <<>>
        /\ 2 * Len(matches) = number_indices
        /\ \A k \in 1..Len(matches) :
              /\ matches[k].f = matches[k].h
              /\ matches[k].dist = 0
              /\ ValueAt(Gradient(fuzzer), matches[k].f + 1)
                    = ValueAt(Gradient(hmm), matches[k].h + 1)

\* a curve with two growth events was scored against itself; candidates pairing
\* different events were turned down
C12_Witness ==
    /\ pc = "score_done"
    /\ fuzzer_in = hmm_in
    /\ max_distance > 0
    /\ Len(matches) = 2
    /\ Len(sorted_matches) > 2

\* C6: when both curves are flat and yield zero growth events, the call returns 0.0
\* and raises no error.
C6_NoEventsScoreZero ==
    (ScoreEnded /\ score.status # "ValueError" /\ IsFlat(fuzzer_in) /\ IsFlat(hmm_in)
        /\ max_distance > 0 /\ number_indices = 0) =>
        (pc = "score_done" /\ score.status = "ok" /\ score.value.num = 0)

\* the steps of a trace: positions i (0-based) with t[i+1] # t[i]
Steps(t) == {i \in 0..(Len(t) - 2) : t[i + 2] # t[i + 1]}

\* C15: the growth events extracted from a normalized trace t are exactly the indices
\* i whose forward difference t[i+1] - t[i] is strictly positive; so a trace of length
\* L yields at most L-1 events and a single upward step produces exactly one event.
\* (Stated for the fuzzer curve when it is not the longer one, so that the common
\* range covers it.)
C15_EventsAreForwardIncreases ==
    (pc = "score_greedy" /\ match_pos = 0 /\ Len(fuzzer.vals) <= Len(hmm.vals)) =>
        LET t == fuzzer.vals
            L == Len(t)
        IN  /\ \A i \in 0..(L - 1) :
                  Contains(unmatched_fuzzer, i) <=> (i + 1 < L /\ t[i + 2] - t[i + 1] > 0)
            /\ Len(unmatched_fuzzer) <= L - 1
            /\ (Cardinality(Steps(t)) = 1 /\ \A i \in Steps(t) : t[i + 2] > t[i + 1])
                  => Len(unmatched_fuzzer) = 1

\* the events of a gradient over the common range 0..gn-1
EventSet(g, gn) == {i \in 0..(gn - 1) : g.vals[i + 1] > 0}

\* C16: with at least one event in total the returned score equals
\*   (sum over the matches (a,b,d) of (d/window)^2 + (gradA[a] - gradB[b])^2
\*    + 2 for every unmatched event of either curve) / (2 * (|E_A| + |E_B|)),
\* E_A and E_B being the event sets before matching; it is 1 when no event is matched.
\* With gradA[a] = x/p and gradB[b] = y/q the equation is stated cross-multiplied by
\* window^2 * p^2 * q^2 and the denominators of both sides.
C16_ScoreFormula ==
    pc = "score_done" =>
        LET gA == Gradient(fuzzer)
            gB == Gradient(hmm)
            gn == Min2(Len(gA.vals), Len(gB.vals))
            EA == EventSet(gA, gn)
            EB == EventSet(gB, gn)
            UA == EA \ {matches[k].f : k \in 1..Len(matches)}
            UB == EB \ {matches[k].h : k \in 1..Len(matches)}
            w == max_distance
            p == gA.den
            q == gB.den
            D == IF matches = <<>> THEN 1 ELSE w * w * p * p * q * q
            term(k) ==
                LET d == matches[k].dist
                    x == gA.vals[matches[k].f + 1]
                    y == gB.vals[matches[k].h + 1]
                IN  d * d * p * p * q * q + w * w * (x * q - y * p) * (x * q - y * p)
            total == SumSeq([k \in 1..Len(matches) |-> term(k)])
                     + 2 * D * (Cardinality(UA) + Cardinality(UB))
        IN  /\ Cardinality(EA) + Cardinality(EB) >= 1
            /\ score.status = "ok"
            /\ score.value.num * (D * 2 * (Cardinality(EA) + Cardinality(EB)))
                  = score.value.den * total
            /\ matches = <<>> => score.value = Frac(1, 1)

\* a score was returned for a matching with a match at a distance above 0 between
\* different gradients and with an unmatched event
C16_Witness ==
    /\ pc = "score_done"
    /\ \E k \in 1..Len(matches) :
          /\ matches[k].dist > 0
          /\ ValueAt(Gradient(fuzzer), matches[k].f + 1)
                # ValueAt(Gradient(hmm), matches[k].h + 1)
    /\ Len(unmatched_fuzzer) + Len(unmatched_hmm) > 0
    /\ score.value # Frac(1, 1)

----------------------------------------------------------------------------
(* Properties of normalize *)

StrictlyIncreasing(curve) == \A j, k \in 1..Len(curve) : j < k => curve[j] < curve[k]

Normalized == pc # "score_call"

\* C7: for every flat input curve normalize returns 0.0 at the first position and
\* 1.0 at every subsequent position, one element more than the input.
C7_FlatCurveNormalized ==
    (Normalized /\ IsFlat(fuzzer_in)) =>
        /\ Len(fuzzer.vals) = Len(fuzzer_in) + 1
        /\ ValueAt(fuzzer, 1) = Frac(0, 1)
        /\ \A k \in 2..Len(fuzzer.vals) : ValueAt(fuzzer, k) = Frac(1, 1)

\* C8: for every strictly increasing input curve with values in [0,1] the first
\* element of normalize's output is exactly 0.0 and every output element lies in [0,1].
C8_IncreasingCurveStartsAtZero ==
    (Normalized /\ StrictlyIncreasing(fuzzer_in)) =>
        /\ Len(fuzzer.vals) >= 1
        /\ ValueAt(fuzzer, 1) = Frac(0, 1)
        /\ \A k \in 1..Len(fuzzer.vals) :
              0 <= fuzzer.vals[k] /\ fuzzer.vals[k] <= fuzzer.den

----------------------------------------------------------------------------
(* Properties of create_model *)

Fitted(k) == outcomes[k] = "fitted"

\* C9: the retry loop ends at the first attempt that completes without exception or
\* after threshold attempts: from_samples is never called after a success nor more
\* than threshold times, and at return it was called up to the first success or, with
\* no success, exactly threshold times; a model is returned iff an attempt succeeded,
\* otherwise None.
C9_RetryLoopBounded ==
    /\ Len(outcomes) <= threshold
    /\ \A k \in 1..(Len(outcomes) - 1) : ~Fitted(k)
    /\ pc = "fit_done" =>
          /\ (\E k \in 1..Len(outcomes) : Fitted(k)) \/ Len(outcomes) = threshold
          /\ (fit_result = "model") <=> (\E k \in 1..Len(outcomes) : Fitted(k))
          /\ (fit_result = "None") <=> ~(\E k \in 1..Len(outcomes) : Fitted(k))

\* a model was returned at the third attempt
C9_Witness ==
    /\ pc = "fit_done"
    /\ Len(outcomes) = 3
    /\ Fitted(3)
    /\ fit_result = "model"

\* C10: no exception of the fitting routine propagates out of create_model: a
\* numerical error and any other exception both discard the attempt and use up one
\* attempt of the same budget, and an exhausted budget gives None, not an error.
C10_NoExceptionPropagates ==
    /\ pc # "fit_raised"
    /\ fit_i = Len(outcomes)
    /\ (\A k \in 1..Len(outcomes) : ~Fitted(k)) => (~successful /\ model = "unfitted")
    /\ (pc = "fit_done" /\ \A k \in 1..Len(outcomes) : ~Fitted(k)) =>
          (fit_result = "None" /\ fit_i = threshold)

\* the budget was used up by a numerical error and another exception: None returned
C10_Witness ==
    /\ pc = "fit_done"
    /\ fit_result = "None"
    /\ \E j, k \in 1..Len(outcomes) :
          outcomes[j] = "LinAlgError" /\ outcomes[k] = "Exception"

----------------------------------------------------------------------------
(* Properties of hmm_coverage *)

CalcEnded == pc \in {"calc_returned", "calc_raised"}

\* C13: when the single-sequence entry point is given a batch with more than one
\* sequence it emits a diagnostic but the call does not fail: it returns the bitmap of
\* the first sequence and ignores the others, in calculate_coverage_single and in the
\* hook hmm_coverage.calculate_coverage that calls it.
C13_BatchProcessesFirst ==
    (CalcEnded /\ Len(preprocessed_data) > 1) =>
        /\ pc = "calc_returned"
        /\ raised = "none"
        /\ warned
        /\ coverage = generate_coverage_map(estimated_nodes, number_of_nodes)
        /\ steps = <<"load_and_split_data_syn", "preprocess", "viterbi">>

\* C14: a calculate_coverage call made while no init call has completed fails fast
\* with the explicit precondition error, before any pcap loading, preprocessing or
\* decoding; initialized is true only after an init call that loaded preprocessor,
\* model and node count ran to its end.
C14_UninitializedFailsFast ==
    /\ pc \in {"calc_load", "calc_single", "calc_returned"} => init_completed
    /\ (pc = "calc_raised" /\ ~init_completed) =>
          (raised = "AssertionError:65" /\ steps = <<>> /\ preprocessed_data = <<>>)
    /\ initialized <=> init_completed
    /\ initialized =>
          (preprocessor # "none" /\ model = "loaded" /\ number_of_nodes \in NodeCounts)

\* calculate_coverage failed with the precondition error after an init call that had
\* loaded the preprocessor and then failed
C14_Witness ==
    /\ pc = "calc_raised"
    /\ raised = "AssertionError:65"
    /\ ~initialized
    /\ preprocessor # "none"
    /\ steps = <<>>

\* C17: every preprocessor_type that init accepts is one preprocess dispatches on:
\* after a successful init with an accepted type, calculate_coverage never fails in
\* preprocess with the 'unknown model_type' ValueError.
C17_AcceptedTypeIsDispatched ==
    (pc = "calc_raised" /\ debug /\ init_completed /\ InitAccepts(preprocessor_type)) =>
        raised # "ValueError:56"

====
